---- MODULE Spec2Model ----
(***************************************************************************)
(* Model of the news aggregation pipeline of the financial agent suite:    *)
(* NewsRetrieverAgent.run with its three fetch adapters, the fuzzy         *)
(* headline deduplication and the relevance filter                         *)
(* (src/agents/news_retriever_agent.py).                                   *)
(*                                                                         *)
(* Python strings are sequences of ASCII codes, so that lower(), the       *)
(* substring test and the token-set similarity are computed, not assumed.  *)
(* A Python value is a record [t |-> type name, s |-> characters]; for an  *)
(* int, s is its decimal rendering str(v).                                 *)
(***************************************************************************)
EXTENDS Integers, Sequences, FiniteSets, TLC

VARIABLES
  company_name,      \* argument of run
  short_name,        \* argument of run (None when the lookup had no shortName)
  stock_ticker,      \* argument of run
  pc,                \* position inside run
  w,                 \* index of the current element of search_windows
  fetched,           \* articles fetched so far for the current window
  all_articles,      \* run: all_articles
  unique_articles,   \* run: unique_articles
  final_articles,    \* run: final_articles, the list returned under "articles"
  outcome,           \* "running", "returned" or "raised"
  calls,             \* history: the adapter calls made, in order
  all_failed,        \* history: every adapter call so far ended in its except branch
  credentials,       \* the providers whose API key is set in the environment
  dedup_call,        \* _deduplicate_articles called on its own: its argument,
                     \* its result, and the result of a call on that result
  cache,             \* the lru_cache of run: its entries, least recently used first
  last_call,         \* history: the most recent call of the memoized run
  called,            \* history: the triples the callers have used
  report,            \* the report generation of the app: its position and locals
  invoked,           \* history: what the current report has invoked so far
  snapshot,          \* history: each stored result as run returned it
  chart_cache,       \* the lru_cache of ChartingAgent.run, least recently used first
  chart,             \* the chart and interpretation steps of the app, and
                     \* history: the table as ChartingAgent.run first returned it
  verdict,           \* RuleBasedEngine.run: its arguments and its result
  script             \* the Generate Report block of the app: its position, its
                     \* financial_data, and history: the stages it has invoked

\* the locals and arguments of one call of run, and its history
runVars == <<company_name, short_name, stock_ticker, pc, w, fetched, all_articles,
             unique_articles, final_articles, outcome, calls, all_failed>>

\* what a call of run reads and leaves alone
extVars == <<credentials, script, dedup_call, cache, last_call, called, report, invoked,
            snapshot, chart_cache, chart, verdict>>

\* the chart and interpretation steps, and the rule engine
chartVars == <<chart_cache, chart, verdict>>

\* the app above the agents
appVars == <<report, invoked, snapshot>>

\* the memoized run and its callers
memoVars == <<cache, last_call, called>>

vars == <<runVars, extVars>>

(***************************************************************************)
(* Python values and string operations                                     *)
(***************************************************************************)
None == [t |-> "NoneType", s |-> <<>>]

Str(chars) == [t |-> "str", s |-> chars]

IntVal(digits) == [t |-> "int", s |-> digits]

\* bool(v): None, "" and 0 are falsy
Truthy(v) ==
  CASE v.t = "NoneType" -> FALSE
    [] v.t = "str" -> Len(v.s) > 0
    [] OTHER -> v.s # <<48>>

Min(a, b) == IF a <= b THEN a ELSE b

Max(a, b) == IF a >= b THEN a ELSE b

\* str.lower() on ASCII
lower(s) == [i \in 1..Len(s) |-> IF s[i] \in 65..90 THEN s[i] + 32 ELSE s[i]]

\* the Python test  sub in s  on strings
contains(sub, s) ==
  \E i \in 0..(Len(s) - Len(sub)) : SubSeq(s, i + 1, i + Len(sub)) = sub

isalnum(c) == c \in (48..57) \cup (65..90) \cup (97..122)

RECURSIVE lstrip(_)
lstrip(s) == IF s # <<>> /\ Head(s) = 32 THEN lstrip(Tail(s)) ELSE s

RECURSIVE rstrip(_)
rstrip(s) ==
  IF s # <<>> /\ s[Len(s)] = 32 THEN rstrip(SubSeq(s, 1, Len(s) - 1)) ELSE s

\* the processor thefuzz applies before scoring: non-alphanumerics become
\* spaces, the text is lower-cased and stripped
full_process(s) ==
  rstrip(lstrip(lower([i \in 1..Len(s) |-> IF isalnum(s[i]) THEN s[i] ELSE 32])))

\* set(s.split())
token_set(s) ==
  { SubSeq(s, i, j) : <<i, j>> \in
      { p \in (1..Len(s)) \X (1..Len(s)) :
          /\ p[1] <= p[2]
          /\ \A k \in p[1]..p[2] : s[k] # 32
          /\ (p[1] = 1 \/ s[p[1] - 1] = 32)
          /\ (p[2] = Len(s) \/ s[p[2] + 1] = 32) } }

\* string order of Python
str_less(a, b) ==
  \E i \in 1..(Min(Len(a), Len(b)) + 1) :
    /\ \A k \in 1..(i - 1) : a[k] = b[k]
    /\ \/ (i > Len(a) /\ i <= Len(b))
       \/ (i <= Len(a) /\ i <= Len(b) /\ a[i] < b[i])

RECURSIVE sorted(_)
sorted(S) ==
  IF S = {} THEN <<>>
  ELSE LET m == CHOOSE x \in S : \A y \in S \ {x} : str_less(x, y)
       IN <<m>> \o sorted(S \ {m})

RECURSIVE join(_)
join(toks) ==
  IF toks = <<>> THEN <<>>
  ELSE IF Len(toks) = 1 THEN toks[1]
  ELSE toks[1] \o <<32>> \o join(Tail(toks))

\* one row of the longest-common-subsequence table: row[j] is the length for
\* the prefix of a ending in c and the first j characters of b
RECURSIVE lcs_row(_, _, _, _)
lcs_row(prev, c, b, row) ==
  LET j == Len(row) + 1
      diag == IF j = 1 THEN 0 ELSE prev[j - 1]
      left == IF j = 1 THEN 0 ELSE row[j - 1]
  IN IF j > Len(b) THEN row
     ELSE lcs_row(prev, c, b,
                  Append(row, IF c = b[j] THEN diag + 1 ELSE Max(prev[j], left)))

RECURSIVE lcs_rows(_, _, _, _)
lcs_rows(a, i, b, prev) ==
  IF i > Len(a) THEN prev ELSE lcs_rows(a, i + 1, b, lcs_row(prev, a[i], b, <<>>))

lcs_len(a, b) ==
  IF b = <<>> THEN 0 ELSE lcs_rows(a, 1, b, [j \in 1..Len(b) |-> 0])[Len(b)]

indel_distance(a, b) == Len(a) + Len(b) - 2 * lcs_len(a, b)

\* int(round(100 - 100 * dist / lensum)), Python rounding (half to even)
norm_score(dist, lensum) ==
  IF lensum = 0 THEN 100
  ELSE LET num == 100 * (lensum - dist)
           q   == num \div lensum
           r2  == 2 * (num % lensum)
       IN IF r2 > lensum \/ (r2 = lensum /\ q % 2 = 1) THEN q + 1 ELSE q


\* rapidfuzz.fuzz.token_set_ratio on two processed strings, rounded by thefuzz
token_set_score(p1, p2) ==
  LET tokens_a == token_set(p1)
      tokens_b == token_set(p2)
      intersect == tokens_a \cap tokens_b
      diff_ab == join(sorted(tokens_a \ tokens_b))
      diff_ba == join(sorted(tokens_b \ tokens_a))
      ab_len == Len(diff_ab)
      ba_len == Len(diff_ba)
      sect_len == Len(join(sorted(intersect)))
      sep == IF sect_len # 0 THEN 1 ELSE 0
      sect_ab_len == sect_len + sep + ab_len
      sect_ba_len == sect_len + sep + ba_len
      result == norm_score(indel_distance(diff_ab, diff_ba), sect_ab_len + sect_ba_len)
      sect_ab_ratio == norm_score(sep + ab_len, sect_len + sect_ab_len)
      sect_ba_ratio == norm_score(sep + ba_len, sect_len + sect_ba_len)
  IN IF tokens_a = {} \/ tokens_b = {} THEN 0
     ELSE IF intersect # {} /\ (tokens_a \ tokens_b = {} \/ tokens_b \ tokens_a = {}) THEN 100
     ELSE IF sect_len = 0 THEN result
     ELSE Max(result, Max(sect_ab_ratio, sect_ba_ratio))

(***************************************************************************)
(* The provider responses the model draws from                             *)
(***************************************************************************)
\* "Profit up": names neither the ticker nor the short name
H_PLAIN == Str(<<80, 114, 111, 102, 105, 116, 32, 117, 112>>)

\* "Profit up xy": names the ticker in lower case; its tokens include H_PLAIN's
H_TICKER == Str(<<80, 114, 111, 102, 105, 116, 32, 117, 112, 32, 120, 121>>)

\* "ACME deal": names the short name in upper case
H_NAME == Str(<<65, 67, 77, 69, 32, 100, 101, 97, 108>>)

\* a title that is the JSON number 123
H_NUMBER == IntVal(<<49, 50, 51>>)

\* "XY": the one token that H_TICKER has and H_PLAIN has not
H_XY == Str(<<88, 89>>)

\* "Acme Q3 rises" and "Acme Q3 sales" score 85; "Acme 10" and "Acme 12" score 86
H_RISES == Str(<<65, 99, 109, 101, 32, 81, 51, 32, 114, 105, 115, 101, 115>>)

H_SALES == Str(<<65, 99, 109, 101, 32, 81, 51, 32, 115, 97, 108, 101, 115>>)

H_TEN == Str(<<65, 99, 109, 101, 32, 49, 48>>)

H_TWELVE == Str(<<65, 99, 109, 101, 32, 49, 50>>)

\* "!!!": a headline that is not empty and has no token
H_MARKS == Str(<<33, 33, 33>>)

\* the headlines of the lists _deduplicate_articles is called on by itself
DedupHeadlines ==
  { None, Str(<<>>), H_MARKS, H_PLAIN, H_TICKER, H_XY, H_RISES, H_SALES, H_TEN,
    H_TWELVE }

\* the longest list _deduplicate_articles is called on by itself
MaxLen == 3

\* "Acme01", "Acme02", ...: pairwise different one-token headlines
Numbered(i) == Str(<<65, 99, 109, 101, 48 + (i \div 10), 48 + (i % 10)>>)

\* one more entry than the adapters' result cap of 20
OverCap == 21

\* the length of a feed that stays below min_articles_threshold on its own
ShortFeed == 8

Family(n) == [i \in 1..n |-> Numbered(i)]

\* the titles of the entries of a well-formed response
TitleLists ==
  { <<>>, <<None, H_PLAIN, Str(<<>>)>>, <<H_NAME, H_TICKER>>, <<H_NUMBER>>,
    Family(ShortFeed), Family(OverCap) }

\* a provider call ends in a transport error (network, timeout, non-2xx), in a
\* payload of the wrong shape, or in a well-formed payload
Responses ==
  { [kind |-> "error", titles |-> <<>>], [kind |-> "malformed", titles |-> <<>>] }
    \cup { [kind |-> "ok", titles |-> ts] : ts \in TitleLists }

\* a request that carries the key None is refused: with an error status, or
\* with a body that has no articles
Rejections ==
  { [kind |-> "error", titles |-> <<>>], [kind |-> "ok", titles |-> <<>>] }

\* the texts of the headlines the responses can carry
HeadlineTexts ==
  { h.s : h \in {H_PLAIN, H_TICKER, H_NAME, H_NUMBER} \cup DedupHeadlines }
    \cup { Numbered(i).s : i \in 1..(OverCap + 1) }

\* the scores of all pairs of these texts, computed once
ScoreTable ==
  [a \in HeadlineTexts |->
     [b \in HeadlineTexts |-> token_set_score(full_process(a), full_process(b))] @@ <<>>]
    @@ <<>>

\* thefuzz.fuzz.token_set_ratio(s1, s2): None scores 0, anything else is
\* rendered with str() and processed before scoring
token_set_ratio(s1, s2) ==
  IF s1.t = "NoneType" \/ s2.t = "NoneType" THEN 0
  ELSE IF s1.s \in HeadlineTexts /\ s2.s \in HeadlineTexts THEN ScoreTable[s1.s][s2.s]
  ELSE LET p1 == full_process(s1.s)
           p2 == full_process(s2.s)
       IN IF p1 = <<>> \/ p2 = <<>> THEN 0 ELSE token_set_score(p1, p2)


(***************************************************************************)
(* NewsRetrieverAgent                                                      *)
(***************************************************************************)
search_windows == <<7, 30>>

min_articles_threshold == 10

similarity_threshold == 85

\* the slice bound of unique_articles[:20] and relevant_articles[:20]
MaxArticles == 20

\* the slice bound of articles[:20] in the Alpha Vantage adapter
FeedCap == 20

Providers == <<"NewsAPI", "GNews", "Alpha Vantage">>

\* NEWSAPI_KEY, GNEWS_API_KEY, ALPHA_VANTAGE_API_KEY: os.getenv gives None for
\* a variable that is not set, and the adapters send whatever they got
ProviderSet == { Providers[k] : k \in 1..Len(Providers) }

\* what a provider can answer to a call of its adapter
ResponsesFor(provider) ==
  IF provider \in credentials THEN Responses ELSE Rejections

\* seq[:n]
Take(seq, n) == SubSeq(seq, 1, Min(n, Len(seq)))

\* the record an adapter builds from entry i of a payload; the model gives every
\* entry of every payload its own url
Article(source, days_back, titles, i) ==
  [source |-> source, headline |-> titles[i], url |-> <<source, days_back, i>>,
   content |-> ""]

\* an adapter that turns the body of a failed request into an entry
fetch_from_newsapi_unchecked(resp, days_back) ==
  IF resp.kind # "ok" THEN <<Article("NewsAPI", days_back, <<None>>, 1)>>
  ELSE [i \in 1..Len(resp.titles) |-> Article("NewsAPI", days_back, resp.titles, i)]

\* _fetch_from_newsapi: the except branch returns []
fetch_from_newsapi(resp, days_back) ==
  IF resp.kind # "ok" THEN <<>>
  ELSE [i \in 1..Len(resp.titles) |-> Article("NewsAPI", days_back, resp.titles, i)]

\* _fetch_from_gnews
fetch_from_gnews(resp, days_back) ==
  IF resp.kind # "ok" THEN <<>>
  ELSE [i \in 1..Len(resp.titles) |-> Article("GNews", days_back, resp.titles, i)]

\* _fetch_from_alpha_vantage: the feed is cut to its first 20 entries
fetch_from_alpha_vantage(resp, days_back) ==
  IF resp.kind # "ok" THEN <<>>
  ELSE LET articles == Take(resp.titles, FeedCap)
       IN [i \in 1..Len(articles) |-> Article("Alpha Vantage", days_back, articles, i)]

\* a truthiness test that lets the empty string through
has_headline_unless_none(article) == article.headline # None

\* the test of  if not article.get('headline'): continue
has_headline(article) == Truthy(article.headline)

\* a comparison that counts a score of 85 as a duplicate
is_duplicate_from_threshold(headline, seen_headlines) ==
  \E k \in 1..Len(seen_headlines) :
    token_set_ratio(headline, seen_headlines[k]) >= similarity_threshold

\* a comparison with the most recent seen headline only
is_duplicate_of_last(headline, seen_headlines) ==
  /\ seen_headlines # <<>>
  /\ token_set_ratio(headline, seen_headlines[Len(seen_headlines)]) > similarity_threshold

\* is_duplicate of _deduplicate_articles
is_duplicate(headline, seen_headlines) ==
  \E k \in 1..Len(seen_headlines) :
    token_set_ratio(headline, seen_headlines[k]) > similarity_threshold

\* a loop that compares each article with the one before it in the argument
RECURSIVE dedup_from_adjacent(_, _, _)
dedup_from_adjacent(articles, i, unique) ==
  IF i > Len(articles) THEN unique
  ELSE IF ~has_headline(articles[i]) THEN dedup_from_adjacent(articles, i + 1, unique)
  ELSE IF is_duplicate(articles[i].headline,
                       IF i = 1 THEN <<>> ELSE <<articles[i - 1].headline>>)
       THEN dedup_from_adjacent(articles, i + 1, unique)
  ELSE dedup_from_adjacent(articles, i + 1, Append(unique, articles[i]))

\* the loop of _deduplicate_articles from article i on; seen_headlines is the
\* list of the headlines of unique
RECURSIVE dedup_from(_, _, _)
dedup_from(articles, i, unique) ==
  IF i > Len(articles) THEN unique
  ELSE IF ~has_headline(articles[i]) THEN dedup_from(articles, i + 1, unique)
  ELSE IF is_duplicate(articles[i].headline,
                       [k \in 1..Len(unique) |-> unique[k].headline])
       THEN dedup_from(articles, i + 1, unique)
  ELSE dedup_from(articles, i + 1, Append(unique, articles[i]))

deduplicate_articles(articles) == dedup_from(articles, 1, <<>>)

\* name_to_check = short_name.lower() if short_name else None
name_to_check(short) == IF Truthy(short) THEN Str(lower(short.s)) ELSE None

\* a filter that wants the ticker and the short name together
is_relevant_both(article, short, ticker) ==
  LET headline == lower(article.headline.s)
      name == name_to_check(short)
  IN /\ contains(lower(ticker.s), headline)
     /\ (Truthy(name) /\ contains(name.s, headline))

\* is_relevant of run, for an article whose headline is a string
is_relevant(article, short, ticker) ==
  LET headline == lower(article.headline.s)
      name == name_to_check(short)
  IN \/ contains(lower(ticker.s), headline)
     \/ (Truthy(name) /\ contains(name.s, headline))

RECURSIVE SelectSeq2(_, _, _)
SelectSeq2(seq, short, ticker) ==
  IF seq = <<>> THEN <<>>
  ELSE (IF is_relevant(Head(seq), short, ticker) THEN <<Head(seq)>> ELSE <<>>)
         \o SelectSeq2(Tail(seq), short, ticker)

\* a filter that ranks the ticker matches before the other matches
relevant_articles_ranked(unique, short, ticker) ==
  SelectSeq2(unique, None, ticker)
    \o SelectSeq(SelectSeq2(unique, short, ticker),
                 LAMBDA a : ~contains(lower(ticker.s), lower(a.headline.s)))

\* relevant_articles after the loop of run
relevant_articles(unique, short, ticker) == SelectSeq2(unique, short, ticker)

\* a fallback without the slice
select_final_uncut(relevant, unique) ==
  IF relevant = <<>> /\ unique # <<>> THEN unique ELSE Take(relevant, MaxArticles)

\* a selection without the fallback
select_final_no_fallback(relevant, unique) == Take(relevant, MaxArticles)

\* final_articles of run
select_final(relevant, unique) ==
  IF relevant = <<>> /\ unique # <<>> THEN Take(unique, MaxArticles)
  ELSE Take(relevant, MaxArticles)

\* article.get('headline', '').lower() raises AttributeError unless the headline
\* is a string
lower_raises(unique) == \E k \in 1..Len(unique) : unique[k].headline.t # "str"

(***************************************************************************)
(* The state machine of one call of run                                    *)
(***************************************************************************)
\* "Acme"
NAME_ACME == Str(<<65, 99, 109, 101>>)

\* "XY"
TICKER_XY == Str(<<88, 89>>)

InitRun ==
  /\ company_name = "Acme Corporation"
  /\ short_name \in {None, NAME_ACME}
  /\ stock_ticker = TICKER_XY
  /\ pc = "newsapi"
  /\ w = 1
  /\ fetched = <<>>
  /\ all_articles = <<>>
  /\ unique_articles = <<>>
  /\ final_articles = <<>>
  /\ outcome = "running"
  /\ calls = <<>>
  /\ all_failed = TRUE

\* no call of _deduplicate_articles by itself
NoDedupCall == [articles |-> <<>>, unique_articles |-> <<>>, again |-> <<>>, step |-> 0]

\* the result of a call that has none
NoResult == [articles |-> <<"none">>]

\* an agent whose run was never called
NoMemo ==
  /\ cache = <<>>
  /\ last_call = [key |-> -1, hit |-> FALSE, provider_calls |-> 0, outcome |-> "none",
                  result |-> NoResult, repeat |-> FALSE, previous |-> NoResult,
                  returned_before |-> FALSE, others_since |-> 0, tick |-> 0]
  /\ called = [fresh |-> 0, returned |-> FALSE, others |-> {}]

\* financial_data before data_agent.run has returned
NoData == [error |-> None, profile |-> FALSE, longName |-> None, shortName |-> None,
           metrics |-> <<>>]

\* the button was not pressed
NoScript == [pc |-> "idle", financial_data |-> NoData, request |-> "none",
             trace |-> <<>>]

\* the locals of the report before they are assigned
NoSentiment == [sentiment_label |-> "unset", sentiment_score |-> 0, note |-> "unset"]

NoSummary == [summary |-> "unset"]

\* the rule engine was not called
NoVerdict == [stage |-> "idle", financial_data |-> <<>>, sentiment_data |-> <<>>,
              verdict_result |-> <<>>]

\* a DataFrame with the column Close and no row
EmptyTable == [columns |-> <<"Close">>, values |-> ("Close" :> <<>>)]

\* no report is being generated
NoReport ==
  /\ report = [stage |-> "idle", news_data |-> -1, sentiment_result |-> NoSentiment,
               summary_result |-> NoSummary]
  /\ invoked = {}
  /\ snapshot = <<>>
  /\ chart_cache = <<>>
  /\ chart = [stage |-> "idle", hit |-> FALSE, technical_insights |-> <<>>,
              first |-> EmptyTable]
  /\ verdict = NoVerdict

\* every key is set
Init ==
  /\ InitRun
  /\ credentials = ProviderSet
  /\ script = NoScript
  /\ dedup_call = NoDedupCall
  /\ NoMemo
  /\ NoReport

\* one key or more is not set
InitCred ==
  /\ InitRun
  /\ credentials \in (SUBSET ProviderSet) \ {ProviderSet}
  /\ script = NoScript
  /\ dedup_call = NoDedupCall
  /\ NoMemo
  /\ NoReport

\* no call of run is under way
NoRun ==
  /\ company_name = "Acme Corporation"
  /\ short_name = None
  /\ stock_ticker = TICKER_XY
  /\ pc = "idle"
  /\ w = 1
  /\ fetched = <<>>
  /\ all_articles = <<>>
  /\ unique_articles = <<>>
  /\ final_articles = <<>>
  /\ outcome = "idle"
  /\ calls = <<>>
  /\ all_failed = TRUE

Call(provider, resp, got) ==
  [provider |-> provider, days_back |-> search_windows[w], returned |-> Len(got)]

Fetched(provider, resp, got, next) ==
  /\ fetched' = fetched \o got
  /\ calls' = Append(calls, Call(provider, resp, got))
  /\ all_failed' = (all_failed /\ resp.kind # "ok")
  /\ pc' = next
  /\ UNCHANGED <<company_name, short_name, stock_ticker, w, all_articles,
                 unique_articles, final_articles, outcome>>
  /\ UNCHANGED extVars

\* a loop that leaves the window as soon as one provider reached the threshold
FetchNewsAPI_short_circuit ==
  /\ pc = "newsapi"
  /\ \E resp \in ResponsesFor("NewsAPI") :
       LET got == fetch_from_newsapi(resp, search_windows[w])
       IN Fetched("NewsAPI", resp, got,
                  IF Len(got) >= min_articles_threshold THEN "extend" ELSE "gnews")

FetchNewsAPI ==
  /\ pc = "newsapi"
  /\ \E resp \in ResponsesFor("NewsAPI") :
       Fetched("NewsAPI", resp, fetch_from_newsapi(resp, search_windows[w]), "gnews")

FetchGNews ==
  /\ pc = "gnews"
  /\ \E resp \in ResponsesFor("GNews") :
       Fetched("GNews", resp, fetch_from_gnews(resp, search_windows[w]), "alpha_vantage")

FetchAlphaVantage ==
  /\ pc = "alpha_vantage"
  /\ \E resp \in ResponsesFor("Alpha Vantage") :
       Fetched("Alpha Vantage", resp,
               fetch_from_alpha_vantage(resp, search_windows[w]), "extend")

\* a threshold test with > in place of >=
leave_loop_strict(articles, window) ==
  Len(articles) > min_articles_threshold \/ window = Len(search_windows)

\* a break that is taken after every window
leave_loop_always(articles, window) == window >= 1

\* the loop exit test of run: break once the threshold is reached, or leave
\* the loop after the last window
leave_loop(articles, window) ==
  Len(articles) >= min_articles_threshold \/ window = Len(search_windows)

\* all_articles.extend(fetched) and the threshold test
ExtendAndCheck ==
  /\ pc = "extend"
  /\ all_articles' = all_articles \o fetched
  /\ fetched' = <<>>
  /\ IF leave_loop(all_articles', w)
       THEN pc' = "dedup" /\ w' = w
       ELSE pc' = "newsapi" /\ w' = w + 1
  /\ UNCHANGED <<company_name, short_name, stock_ticker, unique_articles,
                 final_articles, outcome, calls, all_failed>>
  /\ UNCHANGED extVars

Deduplicate ==
  /\ pc = "dedup"
  /\ unique_articles' = deduplicate_articles(all_articles)
  /\ pc' = "filter"
  /\ UNCHANGED <<company_name, short_name, stock_ticker, w, fetched, all_articles,
                 final_articles, outcome, calls, all_failed>>
  /\ UNCHANGED extVars

\* the relevance loop, the fallback and the return of run
FilterAndReturn ==
  /\ pc = "filter"
  /\ pc' = "done"
  /\ IF lower_raises(unique_articles)
       THEN outcome' = "raised" /\ final_articles' = <<>>
       ELSE /\ outcome' = "returned"
            /\ final_articles' =
                 select_final(relevant_articles(unique_articles, short_name, stock_ticker),
                              unique_articles)
  /\ UNCHANGED <<company_name, short_name, stock_ticker, w, fetched, all_articles,
                 unique_articles, calls, all_failed>>
  /\ UNCHANGED extVars

Next ==
  \/ FetchNewsAPI
  \/ FetchGNews
  \/ FetchAlphaVantage
  \/ ExtendAndCheck
  \/ Deduplicate
  \/ FilterAndReturn

Spec == Init /\ [][Next]_vars

\* the same call in a process that lacks one key or more
SpecCred == InitCred /\ [][Next]_vars

(***************************************************************************)
(* _deduplicate_articles as a function of its argument                     *)
(***************************************************************************)
\* the lists of up to MaxLen articles with headlines of DedupHeadlines
DedupInputs ==
  UNION { { [i \in 1..n |-> Article("NewsAPI", 7, titles, i)] :
              titles \in [1..n -> DedupHeadlines] } : n \in 0..MaxLen }

InitDedup ==
  /\ NoRun
  /\ credentials = ProviderSet
  /\ script = NoScript
  /\ \E articles \in DedupInputs :
       dedup_call = [NoDedupCall EXCEPT !.articles = articles]
  /\ NoMemo
  /\ NoReport

\* unique_articles = self._deduplicate_articles(articles)
DedupOnce ==
  /\ dedup_call.step = 0
  /\ dedup_call' = [dedup_call EXCEPT
                      !.unique_articles = deduplicate_articles(dedup_call.articles),
                      !.step = 1]
  /\ UNCHANGED <<runVars, credentials, script, memoVars, appVars, chartVars>>

\* self._deduplicate_articles(unique_articles)
DedupAgain ==
  /\ dedup_call.step = 1
  /\ dedup_call' = [dedup_call EXCEPT
                      !.again = deduplicate_articles(dedup_call.unique_articles),
                      !.step = 2]
  /\ UNCHANGED <<runVars, credentials, script, memoVars, appVars, chartVars>>

NextDedup == DedupOnce \/ DedupAgain

SpecDedup == InitDedup /\ [][NextDedup]_vars


(***************************************************************************)
(* run behind  @lru_cache(maxsize=128)                                     *)
(***************************************************************************)
\* maxsize of the decorator
cache_maxsize == 128

\* the number of triples the callers have besides the first one
MaxTriples == 129

\* "Co000", "Co001", ...
Company(n) ==
  Str(<<67, 111, 48 + (n \div 100), 48 + ((n \div 10) % 10), 48 + (n % 10)>>)

\* the key of the triple the app passes when financial_data has no names:
\* the ticker, None, the ticker
TickerOnly == 0 - 2

\* the arguments of the calls: triple 0 is the one called again and again,
\* triples 1, 2, ... are each new when first called
Triple(n) ==
  IF n = TickerOnly
    THEN [company_name |-> TICKER_XY, short_name |-> None, stock_ticker |-> TICKER_XY]
  ELSE [company_name |-> Company(n), short_name |-> NAME_ACME, stock_ticker |-> TICKER_XY]

ERR == [kind |-> "error", titles |-> <<>>]

\* what the three providers answer in the two windows: nothing at all
FEED_FAIL == [r7 |-> <<ERR, ERR, ERR>>, r30 |-> <<ERR, ERR, ERR>>]

\* two relevant articles from NewsAPI in the 7-day window
FEED_NEWS ==
  [r7 |-> <<[kind |-> "ok", titles |-> <<H_NAME, H_TICKER>>], ERR, ERR>>,
   r30 |-> <<ERR, ERR, ERR>>]

\* one entry with a numeric title from NewsAPI
FEED_NUMBER ==
  [r7 |-> <<[kind |-> "ok", titles |-> <<H_NUMBER>>], ERR, ERR>>,
   r30 |-> <<ERR, ERR, ERR>>]

Feeds == {FEED_FAIL, FEED_NEWS, FEED_NUMBER}

\* the feed of a triple that is called for the first time: the providers
\* have news about every sixteenth of them
FeedOf(n) == IF n % 16 = 0 THEN FEED_NEWS ELSE FEED_FAIL

\* the three adapter calls of one window
fetch_window(rs, days_back) ==
  fetch_from_newsapi(rs[1], days_back) \o fetch_from_gnews(rs[2], days_back)
    \o fetch_from_alpha_vantage(rs[3], days_back)

\* the body of run from its first line to its return, on the answers feed
run_body(triple, feed) ==
  LET first == fetch_window(feed.r7, search_windows[1])
      stop == leave_loop(first, 1)
      all == IF stop THEN first ELSE first \o fetch_window(feed.r30, search_windows[2])
      unique == deduplicate_articles(all)
      raised == lower_raises(unique)
  IN [raised |-> raised,
      provider_calls |-> IF stop THEN 3 ELSE 6,
      result |-> IF raised THEN NoResult
                 ELSE [articles |->
                         select_final(relevant_articles(unique, triple.short_name,
                                                        triple.stock_ticker),
                                      unique)]]

\* a wrapper that does not keep a result without articles
cache_store_unless_empty(entries, key, result) ==
  IF result.articles = <<>> THEN entries
  ELSE IF Len(entries) >= cache_maxsize
    THEN Append(Tail(entries), [key |-> key, result |-> result])
  ELSE Append(entries, [key |-> key, result |-> result])

\* a wrapper that drops the most recently used entry when it is full
cache_store_drop_newest(entries, key, result) ==
  IF Len(entries) >= cache_maxsize
    THEN Append(SubSeq(entries, 1, Len(entries) - 1), [key |-> key, result |-> result])
  ELSE Append(entries, [key |-> key, result |-> result])

\* the wrapper after a miss: the result is stored as the most recently used
\* entry, and a full cache drops its least recently used entry first
cache_store(entries, key, result) ==
  IF Len(entries) >= cache_maxsize
    THEN Append(Tail(entries), [key |-> key, result |-> result])
  ELSE Append(entries, [key |-> key, result |-> result])

\* the wrapper after a hit: the entry becomes the most recently used
cache_touch(entries, i) ==
  SubSeq(entries, 1, i - 1) \o SubSeq(entries, i + 1, Len(entries)) \o <<entries[i]>>

\* the triples other than n that were called since n last returned
OthersSince(n) ==
  IF n = 0 THEN Cardinality(called.others)
  ELSE IF last_call.key = n THEN 0 ELSE 1

ReturnedBefore(n) == IF n = 0 THEN called.returned ELSE n <= called.fresh

\* how a call with triple n changes the record of the callers
Called(n, returns) ==
  IF n = 0
    THEN IF returns THEN [called EXCEPT !.returned = TRUE, !.others = {}] ELSE called
  ELSE [called EXCEPT !.fresh = IF n > @ THEN n ELSE @,
                      !.others = IF called.returned THEN @ \cup {n} ELSE @]

\* news_agent.run(*Triple(n)) through the wrapper of lru_cache
CallRun(n, feed) ==
  LET at == { i \in 1..Len(cache) : cache[i].key = n }
      history == [repeat |-> last_call.key = n /\ last_call.outcome = "returned",
                  previous |-> IF last_call.key = n /\ last_call.outcome = "returned"
                                 THEN last_call.result ELSE NoResult,
                  returned_before |-> ReturnedBefore(n),
                  others_since |-> OthersSince(n),
                  tick |-> 1 - last_call.tick]
  IN IF at # {}
       THEN LET i == CHOOSE i \in at : TRUE
            IN /\ cache' = cache_touch(cache, i)
               /\ last_call' = [key |-> n, hit |-> TRUE, provider_calls |-> 0,
                                outcome |-> "returned", result |-> cache[i].result]
                                  @@ history
               /\ called' = Called(n, TRUE)
       ELSE LET r == run_body(Triple(n), feed)
            IN /\ cache' = IF r.raised THEN cache ELSE cache_store(cache, n, r.result)
               /\ last_call' = [key |-> n, hit |-> FALSE,
                                provider_calls |-> r.provider_calls,
                                outcome |-> IF r.raised THEN "raised" ELSE "returned",
                                result |-> r.result] @@ history
               /\ called' = Called(n, ~r.raised)

\* the triples a caller may pass next: the one that is called again and
\* again, the newest of the others once more, or one never called before
NextTriples ==
  {0} \cup { n \in {called.fresh, called.fresh + 1} : n >= 1 /\ n <= MaxTriples }

\* what the providers answer when run is entered for triple n
FeedsFor(n) == IF n = 0 THEN Feeds ELSE {FeedOf(n)}

\* one call of the decorated run by the app
CallWrapper ==
  /\ \E n \in NextTriples : \E feed \in FeedsFor(n) : CallRun(n, feed)
  /\ UNCHANGED <<runVars, credentials, script, dedup_call, appVars, chartVars>>

InitCache ==
  /\ NoRun
  /\ credentials = ProviderSet
  /\ script = NoScript
  /\ dedup_call = NoDedupCall
  /\ NoMemo
  /\ NoReport

NextCache == CallWrapper

SpecCache == InitCache /\ [][NextCache]_vars

(***************************************************************************)
(* SentimentAgent, SummarizerAgent and the news steps of the report        *)
(***************************************************************************)
\* the score FinBERT gives its label, in ten-thousandths
MODEL_SCORE == 9000

\* what self.sentiment_pipeline(texts) does on n texts: it raises, or gives
\* one label and score per text
ModelOutcomes(n) ==
  { [raises |-> TRUE, sentiments |-> <<>>] }
    \cup { [raises |-> FALSE, sentiments |-> s] :
             s \in [1..n -> { [label |-> l, score |-> MODEL_SCORE] :
                                l \in {"positive", "negative", "neutral"} }] }

\* round(num / den) to the nearest integer, halves to even, den > 0
round_half_even(num, den) ==
  LET q == num \div den
      r2 == 2 * (num % den)
  IN IF r2 > den \/ (r2 = den /\ q % 2 = 1) THEN q + 1 ELSE q

RECURSIVE score_sum(_)
score_sum(sentiments) ==
  IF sentiments = <<>> THEN 0
  ELSE (CASE Head(sentiments).label = "positive" -> Head(sentiments).score
          [] Head(sentiments).label = "negative" -> 0 - Head(sentiments).score
          [] OTHER -> 0)
       + score_sum(Tail(sentiments))

\* SentimentAgent.run; scores are in ten-thousandths, model says whether
\* the pipeline was called
sentiment_run(articles, answer) ==
  IF articles = <<>>
    THEN [result |-> [sentiment_label |-> "Neutral", sentiment_score |-> 0,
                      note |-> "No articles for analysis."],
          model |-> FALSE]
  ELSE IF answer.raises
    THEN [result |-> [sentiment_label |-> "Error", sentiment_score |-> 0,
                      note |-> "str(e)"],
          model |-> TRUE]
  ELSE LET total == score_sum(answer.sentiments)
           n == Len(answer.sentiments)
       IN [result |-> [sentiment_label |->
                         IF total > 1000 * n THEN "Positive"
                         ELSE IF total < (0 - 1000) * n THEN "Negative"
                         ELSE "Neutral",
                       sentiment_score |-> round_half_even(total, n),
                       note |-> "None"],
           model |-> TRUE]

\* the text SummarizerAgent.run sends: headline and content of the first five
\* articles, each cut to 600 characters, joined and cut to 3000
RECURSIVE texts_to_summarize(_)
texts_to_summarize(top_articles) ==
  IF top_articles = <<>> THEN <<>>
  ELSE LET a == Head(top_articles)
           headline == IF Truthy(a.headline) THEN a.headline.s ELSE <<>>
           full_text == headline \o <<46, 32>> \o a.content
       IN <<Take(full_text, 600)>> \o texts_to_summarize(Tail(top_articles))

\* a run without the test for an empty list
summarizer_run_unguarded(articles, api) ==
  [result |-> CASE api = "summary" -> [summary |-> "summary_text"]
                [] api = "unexpected" ->
                     [summary |-> "Unexpected API response format (possibly model loading)."]
                [] OTHER -> [summary |-> "Error generating summary."],
   endpoint |-> TRUE,
   inputs |-> Take(join(texts_to_summarize(Take(articles, 5))), 3000)]

\* SummarizerAgent.run; api is what the inference endpoint does, endpoint
\* says whether it was called and inputs is the text sent
summarizer_run(articles, api) ==
  IF articles = <<>>
    THEN [result |-> [summary |-> "No news content available to generate a summary."],
          endpoint |-> FALSE, inputs |-> <<>>]
  ELSE [result |-> CASE api = "summary" -> [summary |-> "summary_text"]
                     [] api = "unexpected" ->
                          [summary |-> "Unexpected API response format (possibly model loading)."]
                     [] OTHER -> [summary |-> "Error generating summary."],
        endpoint |-> TRUE,
        inputs |-> Take(join(texts_to_summarize(Take(articles, 5))), 3000)]

\* an entry of the history of a report: what was called, and the text sent
Invoked(what, inputs) == [what |-> what, inputs |-> inputs]

\* the list that news_data["articles"] refers to: the one the cache holds
NewsArticles ==
  LET i == CHOOSE i \in 1..Len(cache) : cache[i].key = report.news_data
  IN cache[i].result.articles

\* news_data = news_agent.run(company_name, short_name, ticker_input); an
\* exception ends the report
ReportNews ==
  /\ report.stage = "news"
  /\ \E feed \in Feeds : CallRun(0, feed)
  /\ report' = IF last_call'.outcome = "raised"
                 THEN [stage |-> "news", news_data |-> -1,
                       sentiment_result |-> NoSentiment, summary_result |-> NoSummary]
                 ELSE [stage |-> "sentiment", news_data |-> 0,
                       sentiment_result |-> NoSentiment, summary_result |-> NoSummary]
  /\ invoked' = {}
  /\ snapshot' = IF last_call'.outcome = "returned" /\ ~last_call'.hit
                   THEN (0 :> last_call'.result) @@ snapshot
                   ELSE snapshot
  /\ UNCHANGED <<runVars, credentials, script, dedup_call, chartVars>>

\* requests.post(SENTIMENT_API_URL, json=news_data) and analyze_sentiment of
\* the service, with the fallback of the app
ReportSentiment ==
  /\ report.stage = "sentiment"
  /\ \E net \in {"ok", "fails"}, loaded \in BOOLEAN,
        answer \in ModelOutcomes(Len(NewsArticles)) :
       LET r == sentiment_run(NewsArticles, answer)
       IN CASE net = "fails" ->
                 /\ report' = [report EXCEPT
                       !.stage = "summary",
                       !.sentiment_result =
                          [sentiment_label |-> "Error", sentiment_score |-> 0,
                           note |-> "Could not connect to the analysis service."]]
                 /\ invoked' = invoked
            [] net = "ok" /\ ~loaded ->
                 /\ report' = [report EXCEPT
                       !.stage = "summary",
                       !.sentiment_result =
                          [sentiment_label |-> "Error", sentiment_score |-> 0,
                           note |-> "Sentiment model is not available."]]
                 /\ invoked' = invoked \cup {Invoked("sentiment_service", <<>>)}
            [] OTHER ->
                 /\ report' = [report EXCEPT !.stage = "summary",
                                             !.sentiment_result = r.result]
                 /\ invoked' = invoked
                      \cup {Invoked("sentiment_service", <<>>),
                            Invoked("SentimentAgent.run", <<>>)}
                      \cup (IF r.model THEN {Invoked("sentiment_pipeline", <<>>)} ELSE {})
  /\ UNCHANGED <<runVars, credentials, script, dedup_call, memoVars, snapshot, chartVars>>

\* a summarizer that takes the articles off the list it was given
ReportSummary_consuming ==
  /\ report.stage = "summary"
  /\ \E api \in {"summary", "unexpected", "error"} :
       LET r == summarizer_run(NewsArticles, api)
       IN /\ report' = [report EXCEPT !.stage = "news", !.summary_result = r.result]
          /\ invoked' = invoked \cup {Invoked("SummarizerAgent.run", <<>>)}
                           \cup (IF r.endpoint THEN {Invoked("API_URL", r.inputs)} ELSE {})
  /\ cache' = [i \in 1..Len(cache) |->
                 IF cache[i].key = report.news_data
                   THEN [cache[i] EXCEPT !.result.articles = <<>>] ELSE cache[i]]
  /\ UNCHANGED <<runVars, credentials, script, dedup_call, last_call, called, snapshot,
                 chartVars>>

\* summary_result = summarizer_agent.run(news_data)
ReportSummary ==
  /\ report.stage = "summary"
  /\ \E api \in {"summary", "unexpected", "error"} :
       LET r == summarizer_run(NewsArticles, api)
       IN /\ report' = [report EXCEPT !.stage = "news", !.summary_result = r.result]
          /\ invoked' = invoked \cup {Invoked("SummarizerAgent.run", <<>>)}
                           \cup (IF r.endpoint THEN {Invoked("API_URL", r.inputs)} ELSE {})
  /\ UNCHANGED <<runVars, credentials, script, dedup_call, memoVars, snapshot, chartVars>>

InitReport ==
  /\ NoRun
  /\ credentials = ProviderSet
  /\ script = NoScript
  /\ dedup_call = NoDedupCall
  /\ NoMemo
  /\ report = [stage |-> "news", news_data |-> -1, sentiment_result |-> NoSentiment,
               summary_result |-> NoSummary]
  /\ invoked = {}
  /\ snapshot = <<>>
  /\ chart_cache = <<>>
  /\ chart = [stage |-> "idle", hit |-> FALSE, technical_insights |-> <<>>,
              first |-> EmptyTable]
  /\ verdict = NoVerdict

NextReport == ReportNews \/ ReportSentiment \/ ReportSummary

SpecReport == InitReport /\ [][NextReport]_vars

(***************************************************************************)
(* ChartingAgent.run behind lru_cache and InterpretationAgent.run          *)
(***************************************************************************)
\* a float of a DataFrame: NaN, or the fraction num / den
NaN == [nan |-> TRUE, num |-> 0, den |-> 1]

Num(n, d) == [nan |-> FALSE, num |-> n, den |-> d]

\* a > b on floats: False when either is NaN
greater(a, b) == ~a.nan /\ ~b.nan /\ a.num * b.den > b.num * a.den

\* the longest price history drawn freely, and the length of the long one
MaxRows == 4

LongRows == 201

\* a year of closes that ends above its average
LongHistory == [i \in 1..LongRows |-> Num(IF i <= LongRows - 50 THEN 1 ELSE 2, 1)]

\* what stock.history(period="1y") returns
Histories ==
  { [columns |-> <<"Close">>, values |-> ("Close" :> closes)] :
      closes \in {LongHistory}
                \cup UNION { [1..n -> {Num(1, 1), Num(2, 1)}] : n \in 0..MaxRows } }

RECURSIVE sum_of(_, _, _)
sum_of(column, from, to) ==
  IF from > to THEN 0
  ELSE IF from = to THEN column[from].num
  ELSE LET mid == (from + to) \div 2
       IN sum_of(column, from, mid) + sum_of(column, mid + 1, to)

\* column.rolling(window).mean() on a column of whole numbers
rolling_mean(column, window) ==
  [i \in 1..Len(column) |->
     IF i < window THEN NaN ELSE Num(sum_of(column, i - window + 1, i), window)]

\* df[name] = column
with_column(df, name, column) ==
  [columns |-> IF \E k \in 1..Len(df.columns) : df.columns[k] = name
                 THEN df.columns ELSE Append(df.columns, name),
   values |-> (name :> column) @@ df.values]

\* _find_ma_crossover: the DataFrame after its four assignments, and the
\* insight it returns
find_ma_crossover(df) ==
  LET close == df.values["Close"]
      sma50 == rolling_mean(close, 50)
      sma200 == rolling_mean(close, 200)
      position == [i \in 1..Len(close) |->
                     IF greater(sma50[i], sma200[i]) THEN Num(1, 1) ELSE Num(0 - 1, 1)]
      crossover == [i \in 1..Len(close) |->
                      IF i = 1 THEN NaN
                      ELSE Num(position[i].num - position[i - 1].num, 1)]
      crossed == { i \in 1..Len(close) : crossover[i] # Num(0, 1) }
      last == CHOOSE i \in crossed : \A j \in crossed : j <= i
  IN [df |-> with_column(with_column(with_column(with_column(df,
                "SMA50", sma50), "SMA200", sma200), "Position", position),
                "Crossover", crossover),
      insight |-> IF crossed = {} THEN <<>>
                  ELSE IF crossover[last] = Num(2, 1) THEN <<"Golden Cross">>
                  ELSE IF crossover[last] = Num(0 - 2, 1) THEN <<"Death Cross">>
                  ELSE <<>>]

\* InterpretationAgent.run on the price of financial_data (0 when it is
\* missing) and the DataFrame; has_df is false for None.  The insights are
\* named by their branch, without their figures.
interpretation_run(price, has_df, df) ==
  IF ~has_df \/ df.values["Close"] = <<>>
    THEN [df |-> df,
          technical_insights |-> <<"No historical data available for analysis.">>]
  ELSE LET close == df.values["Close"]
           current_price == IF price = 0 THEN close[Len(close)] ELSE Num(price, 1)
           sma50 == rolling_mean(close, 50)[Len(close)]
           sma200 == rolling_mean(close, 200)[Len(close)]
           cross == find_ma_crossover(df)
       IN [df |-> cross.df,
           technical_insights |->
             <<"returned over the last year", "below its 52-week high",
               IF greater(current_price, sma50) THEN "above its 50-day moving average"
               ELSE "below its 50-day moving average",
               IF greater(current_price, sma200) THEN "above its 200-day moving average"
               ELSE "below its 200-day moving average",
               "annualized volatility">> \o cross.insight]

\* the body of ChartingAgent.run: history is what stock.history did, and
\* financials_fig whether _create_financials_chart made a figure
charting_run(history, financials_fig) ==
  IF history.raises \/ (history.df.values["Close"] = <<>> /\ ~financials_fig)
    THEN [error |-> TRUE, has_df |-> FALSE, price_history_df |-> EmptyTable]
  ELSE [error |-> FALSE, has_df |-> TRUE, price_history_df |-> history.df]

\* chart_results = chart_agent.run(ticker_input), through the wrapper
ReportChart ==
  /\ chart.stage = "chart"
  /\ IF chart_cache # <<>>
       THEN /\ chart_cache' = cache_touch(chart_cache, 1)
            /\ chart' = [chart EXCEPT !.stage = "interpret", !.hit = TRUE]
       ELSE \E history \in { [raises |-> TRUE, df |-> EmptyTable] }
                             \cup { [raises |-> FALSE, df |-> h] : h \in Histories },
               financials_fig \in BOOLEAN :
              LET r == charting_run(history, financials_fig)
              IN /\ chart_cache' = cache_store(chart_cache, TICKER_XY, r)
                 /\ chart' = [chart EXCEPT !.stage = "interpret", !.hit = FALSE,
                                           !.first = r.price_history_df]
  /\ UNCHANGED <<runVars, credentials, script, dedup_call, memoVars, appVars, verdict>>

\* interpretation_result = interpretation_agent.run(financial_data,
\* price_history_df), on the DataFrame that the cached result holds
ReportInterpretation ==
  /\ chart.stage = "interpret"
  /\ \E price \in {0, 2} :
       LET r == interpretation_run(price, chart_cache[1].result.has_df,
                                   chart_cache[1].result.price_history_df)
       IN /\ chart_cache' = [chart_cache EXCEPT ![1].result.price_history_df = r.df]
          /\ chart' = [chart EXCEPT !.stage = "chart",
                                    !.technical_insights = r.technical_insights]
  /\ UNCHANGED <<runVars, credentials, script, dedup_call, memoVars, appVars, verdict>>

InitChart ==
  /\ NoRun
  /\ credentials = ProviderSet
  /\ script = NoScript
  /\ dedup_call = NoDedupCall
  /\ NoMemo
  /\ report = [stage |-> "idle", news_data |-> -1, sentiment_result |-> NoSentiment,
               summary_result |-> NoSummary]
  /\ invoked = {}
  /\ snapshot = <<>>
  /\ chart_cache = <<>>
  /\ chart = [stage |-> "chart", hit |-> FALSE, technical_insights |-> <<>>,
              first |-> EmptyTable]
  /\ verdict = NoVerdict

NextChart == ReportChart \/ ReportInterpretation

SpecChart == InitChart /\ [][NextChart]_vars

(***************************************************************************)
(* RuleBasedEngine                                                         *)
(***************************************************************************)
\* a metric: None, a string, or a number.  The financial metrics are in
\* hundredths, the sentiment score in ten-thousandths, weights and the
\* total score in tenths.
Missing == [t |-> "NoneType", v |-> 0]

Text == [t |-> "str", v |-> 0]

Float(v) == [t |-> "float", v |-> v]

\* WEIGHTS, in tenths
WEIGHTS ==
  ("Debt-to-Equity" :> 15) @@ ("Profit Margin" :> 12) @@ ("Return on Equity" :> 10)
    @@ ("News Sentiment" :> 10) @@ ("P/E Ratio" :> 8) @@ ("Price-to-Sales Ratio" :> 8)

BUY_THRESHOLD == 15

SELL_THRESHOLD == 0 - 15

\* one _check_ method: the rating is Neutral unless the value passes
\* isinstance(value, (int, float)) and one of the two comparisons
check(metric, value, positive, negative) ==
  [metric |-> metric, value |-> value,
   rating |-> IF value.t \in {"int", "float"} /\ positive THEN "Positive"
              ELSE IF value.t \in {"int", "float"} /\ negative THEN "Negative"
              ELSE "Neutral"]

\* scorecard of run: the six checks with their benchmarks
scorecard_of(financial_data, sentiment_data) ==
  << check("P/E Ratio", financial_data.pe_ratio,
           financial_data.pe_ratio.v < 2000, financial_data.pe_ratio.v > 4000),
     check("Price-to-Sales Ratio", financial_data.price_to_sales,
           financial_data.price_to_sales.v < 200, financial_data.price_to_sales.v > 500),
     check("Profit Margin", financial_data.profit_margins,
           financial_data.profit_margins.v > 20, financial_data.profit_margins.v < 10),
     check("Return on Equity", financial_data.return_on_equity,
           financial_data.return_on_equity.v > 15, financial_data.return_on_equity.v < 5),
     check("Debt-to-Equity", financial_data.debt_to_equity,
           financial_data.debt_to_equity.v < 100, financial_data.debt_to_equity.v > 200),
     check("News Sentiment", sentiment_data.sentiment_score,
           sentiment_data.sentiment_score.v > 1500,
           sentiment_data.sentiment_score.v < 0 - 1500) >>

\* the loop of _calculate_final_verdict from check i on
RECURSIVE tally(_, _, _)
tally(scorecard, i, acc) ==
  IF i > Len(scorecard) THEN acc
  ELSE LET rating == scorecard[i].rating
           weight == WEIGHTS[scorecard[i].metric]
       IN tally(scorecard, i + 1,
                [total_score |-> acc.total_score
                                   + (CASE rating = "Positive" -> weight
                                        [] rating = "Negative" -> 0 - weight
                                        [] OTHER -> 0),
                 positive_checks |-> acc.positive_checks
                                       + (IF rating = "Positive" THEN 1 ELSE 0),
                 negative_checks |-> acc.negative_checks
                                       + (IF rating = "Negative" THEN 1 ELSE 0)])

\* a verdict that wants the total score beyond the thresholds
calculate_final_verdict_strict(scorecard) ==
  LET sums == tally(scorecard, 1,
                    [total_score |-> 0, positive_checks |-> 0, negative_checks |-> 0])
  IN [tilt |-> IF sums.total_score > BUY_THRESHOLD THEN "Bullish"
               ELSE IF sums.total_score < SELL_THRESHOLD THEN "Bearish"
               ELSE "Neutral",
      positive_checks |-> sums.positive_checks,
      negative_checks |-> sums.negative_checks,
      scorecard |-> scorecard]

\* _calculate_final_verdict; signal_strength is given by its two counts
calculate_final_verdict(scorecard) ==
  LET sums == tally(scorecard, 1,
                    [total_score |-> 0, positive_checks |-> 0, negative_checks |-> 0])
  IN [tilt |-> IF sums.total_score >= BUY_THRESHOLD THEN "Bullish"
               ELSE IF sums.total_score <= SELL_THRESHOLD THEN "Bearish"
               ELSE "Neutral",
      positive_checks |-> sums.positive_checks,
      negative_checks |-> sums.negative_checks,
      scorecard |-> scorecard]

\* the values a financial metric is drawn from: missing, a string, and
\* numbers below, at and above its two benchmarks
MetricValues(low, high) ==
  {Missing, Float(low - 1), Float(low), Float(high), Float(high + 1)}

InitRules ==
  /\ NoRun
  /\ credentials = ProviderSet
  /\ script = NoScript
  /\ dedup_call = NoDedupCall
  /\ NoMemo
  /\ report = [stage |-> "idle", news_data |-> -1, sentiment_result |-> NoSentiment,
               summary_result |-> NoSummary]
  /\ invoked = {}
  /\ snapshot = <<>>
  /\ chart_cache = <<>>
  /\ chart = [stage |-> "idle", hit |-> FALSE, technical_insights |-> <<>>,
              first |-> EmptyTable]
  /\ \E pe \in MetricValues(2000, 4000) \cup {Text},
        ps \in MetricValues(200, 500),
        pm \in MetricValues(10, 20),
        roe \in MetricValues(5, 15),
        de \in MetricValues(100, 200),
        score \in MetricValues(0 - 1500, 1500) \cup {Float(0)} :
       verdict = [stage |-> "rules",
                  financial_data |->
                    [pe_ratio |-> pe, price_to_sales |-> ps, profit_margins |-> pm,
                     return_on_equity |-> roe, debt_to_equity |-> de],
                  sentiment_data |-> [sentiment_score |-> score],
                  verdict_result |-> <<>>]

\* verdict_result = rule_engine.run(financial_data, sentiment_result)
RunRules ==
  /\ verdict.stage = "rules"
  /\ verdict' = [verdict EXCEPT
                   !.stage = "done",
                   !.verdict_result =
                      calculate_final_verdict(
                        scorecard_of(verdict.financial_data, verdict.sentiment_data))]
  /\ UNCHANGED <<runVars, credentials, script, dedup_call, memoVars, appVars, chart_cache,
                 chart>>

SpecRules == InitRules /\ [][RunRules]_vars

(***************************************************************************)
(* DataRetrieverAgent.run and the Generate Report block of the app         *)
(***************************************************************************)
\* the metrics of a result that has none of the metric keys
NoMetrics ==
  [pe_ratio |-> Missing, price_to_sales |-> Missing, profit_margins |-> Missing,
   return_on_equity |-> Missing, debt_to_equity |-> Missing]

\* metrics that pass every benchmark
StrongMetrics ==
  [pe_ratio |-> Float(1500), price_to_sales |-> Float(150), profit_margins |-> Float(25),
   return_on_equity |-> Float(20), debt_to_equity |-> Float(50)]

\* "No data for ticker '"  and  "'. It may be invalid."
NO_DATA_FOR == <<78, 111, 32, 100, 97, 116, 97, 32, 102, 111, 114, 32, 116, 105, 99,
                 107, 101, 114, 32, 39>>

MAY_BE_INVALID == <<39, 46, 32, 73, 116, 32, 109, 97, 121, 32, 98, 101, 32, 105, 110,
                    118, 97, 108, 105, 100, 46>>

\* what yf.Ticker(ticker_symbol) and stock.info do: an exception with its
\* message, which may be empty, or a dictionary; symbol says whether the
\* dictionary is non-empty and has the key 'symbol'
Infos ==
  { [raises |-> TRUE, message |-> m, symbol |-> FALSE, longName |-> None,
     shortName |-> None, metrics |-> NoMetrics] : m \in {<<>>, <<52, 48, 52>>} }
    \cup { [raises |-> FALSE, message |-> <<>>, symbol |-> FALSE, longName |-> None,
            shortName |-> None, metrics |-> NoMetrics] }
    \cup { [raises |-> FALSE, message |-> <<>>, symbol |-> TRUE,
            longName |-> Company(0), shortName |-> NAME_ACME, metrics |-> m] :
             m \in {NoMetrics, StrongMetrics} }

\* DataRetrieverAgent.run: "error" is None, or str(e) of what the try raised;
\* profile says whether the result has the keys of the metrics and the names
data_run(ticker_symbol, info) ==
  IF info.raises
    THEN [error |-> Str(info.message), profile |-> FALSE, longName |-> None,
          shortName |-> None, metrics |-> NoMetrics]
  ELSE IF ~info.symbol
    THEN [error |-> Str(NO_DATA_FOR \o ticker_symbol.s \o MAY_BE_INVALID),
          profile |-> FALSE, longName |-> None, shortName |-> None,
          metrics |-> NoMetrics]
  ELSE [error |-> None, profile |-> TRUE, longName |-> info.longName,
        shortName |-> info.shortName, metrics |-> info.metrics]

\* the stages of one report, in the order of the script
Stages == <<"data", "news", "sentiment", "summary", "chart", "interpretation", "rules">>

\* the fallback of the except branch
FallbackSentiment ==
  [sentiment_label |-> "Error", sentiment_score |-> 0,
   note |-> "Could not connect to the analysis service."]

\* requests.post(SENTIMENT_API_URL, json=news_data), raise_for_status and
\* response.json() inside the try, with analyze_sentiment of the service
sentiment_request(articles, net, loaded, answer) ==
  IF net = "fails"
    THEN [request |-> "failed", sentiment_result |-> FallbackSentiment]
  ELSE IF ~loaded
    THEN [request |-> "ok",
          sentiment_result |-> [sentiment_label |-> "Error", sentiment_score |-> 0,
                                note |-> "Sentiment model is not available."]]
  ELSE [request |-> "ok", sentiment_result |-> sentiment_run(articles, answer).result]

\* financial_data = data_agent.run(ticker_input), and st.stop() when its
\* "error" is truthy
AppData ==
  /\ script.pc = "data"
  /\ \E info \in Infos :
       LET financial_data == data_run(TICKER_XY, info)
       IN script' = [pc |-> IF Truthy(financial_data.error) THEN "stopped" ELSE "news",
                     financial_data |-> financial_data,
                     request |-> "none",
                     trace |-> <<"data">>]
  /\ UNCHANGED <<runVars, credentials, dedup_call, memoVars, appVars, chartVars>>

\* news_data = news_agent.run(company_name, short_name, ticker_input); an
\* exception of run leaves the script
AppNews ==
  /\ script.pc = "news"
  /\ LET company == IF script.financial_data.profile
                      THEN script.financial_data.longName ELSE TICKER_XY
         short == script.financial_data.shortName
         n == CHOOSE k \in {0, TickerOnly} :
                Triple(k).company_name = company /\ Triple(k).short_name = short
     IN /\ \E feed \in Feeds : CallRun(n, feed)
        /\ report' = [report EXCEPT
                        !.news_data = IF last_call'.outcome = "raised" THEN -1 ELSE n]
  /\ script' = [script EXCEPT
                  !.pc = IF last_call'.outcome = "raised" THEN "crashed" ELSE "sentiment",
                  !.trace = Append(@, "news")]
  /\ UNCHANGED <<runVars, credentials, dedup_call, invoked, snapshot, chartVars>>

\* the try around requests.post, with its except branch
AppSentiment ==
  /\ script.pc = "sentiment"
  /\ \E net \in {"ok", "fails"}, loaded \in BOOLEAN,
        answer \in ModelOutcomes(Len(NewsArticles)) :
       LET r == sentiment_request(NewsArticles, net, loaded, answer)
       IN /\ report' = [report EXCEPT !.sentiment_result = r.sentiment_result]
          /\ script' = [script EXCEPT !.pc = "summary", !.request = r.request,
                                      !.trace = Append(@, "sentiment")]
  /\ UNCHANGED <<runVars, credentials, dedup_call, memoVars, invoked, snapshot,
                 chartVars>>

\* summary_result = summarizer_agent.run(news_data)
AppSummary ==
  /\ script.pc = "summary"
  /\ \E api \in {"summary", "unexpected", "error"} :
       report' = [report EXCEPT
                    !.summary_result = summarizer_run(NewsArticles, api).result]
  /\ script' = [script EXCEPT !.pc = "chart", !.trace = Append(@, "summary")]
  /\ UNCHANGED <<runVars, credentials, dedup_call, memoVars, invoked, snapshot,
                 chartVars>>

\* chart_results = chart_agent.run(ticker_input), through the wrapper
AppChart ==
  /\ script.pc = "chart"
  /\ IF chart_cache # <<>>
       THEN /\ chart_cache' = cache_touch(chart_cache, 1)
            /\ chart' = [chart EXCEPT !.hit = TRUE]
       ELSE \E history \in { [raises |-> TRUE, df |-> EmptyTable] }
                             \cup { [raises |-> FALSE, df |-> h] : h \in Histories },
               financials_fig \in BOOLEAN :
              LET r == charting_run(history, financials_fig)
              IN /\ chart_cache' = cache_store(chart_cache, TICKER_XY, r)
                 /\ chart' = [chart EXCEPT !.hit = FALSE, !.first = r.price_history_df]
  /\ script' = [script EXCEPT !.pc = "interpretation", !.trace = Append(@, "chart")]
  /\ UNCHANGED <<runVars, credentials, dedup_call, memoVars, appVars, verdict>>

\* interpretation_result = interpretation_agent.run(financial_data,
\* price_history_df); financial_data has no key 'price'
AppInterpretation ==
  /\ script.pc = "interpretation"
  /\ LET r == interpretation_run(0, chart_cache[1].result.has_df,
                                 chart_cache[1].result.price_history_df)
     IN /\ chart_cache' = [chart_cache EXCEPT ![1].result.price_history_df = r.df]
        /\ chart' = [chart EXCEPT !.technical_insights = r.technical_insights]
  /\ script' = [script EXCEPT !.pc = "rules", !.trace = Append(@, "interpretation")]
  /\ UNCHANGED <<runVars, credentials, dedup_call, memoVars, appVars, verdict>>

\* verdict_result = rule_engine.run(financial_data, sentiment_result)
AppVerdict ==
  /\ script.pc = "rules"
  /\ LET sentiment_data ==
           [sentiment_score |-> Float(report.sentiment_result.sentiment_score)]
     IN verdict' = [stage |-> "done",
                    financial_data |-> script.financial_data.metrics,
                    sentiment_data |-> sentiment_data,
                    verdict_result |->
                      calculate_final_verdict(
                        scorecard_of(script.financial_data.metrics, sentiment_data))]
  /\ script' = [script EXCEPT !.pc = "display", !.trace = Append(@, "rules")]
  /\ UNCHANGED <<runVars, credentials, dedup_call, memoVars, appVars, chart_cache,
                 chart>>

\* the button "Generate Report" was pressed with the ticker XY
InitApp ==
  /\ NoRun
  /\ credentials = ProviderSet
  /\ script = [pc |-> "data", financial_data |-> NoData, request |-> "none",
               trace |-> <<>>]
  /\ dedup_call = NoDedupCall
  /\ NoMemo
  /\ NoReport

NextApp ==
  \/ AppData
  \/ AppNews
  \/ AppSentiment
  \/ AppSummary
  \/ AppChart
  \/ AppInterpretation
  \/ AppVerdict

SpecApp == InitApp /\ [][NextApp]_vars

(***************************************************************************)
(* Properties                                                              *)
(***************************************************************************)
Returned == outcome = "returned"

LoopLeft == pc \in {"dedup", "filter", "done"}

\* the headline is a string that names the ticker or the short name, compared
\* in lower case
Mentions(article) ==
  /\ article.headline.t = "str"
  /\ LET text == lower(article.headline.s)
     IN \/ contains(lower(stock_ticker.s), text)
        \/ (short_name.t = "str" /\ short_name.s # <<>>
              /\ contains(lower(short_name.s), text))

Headless(article) == article.headline = None \/ article.headline = Str(<<>>)

\* C1: the list returned under "articles" never has more than 20 entries
C1_AtMostTwenty == Returned => Len(final_articles) <= 20

\* C1 witness: more than 20 deduplicated articles, none relevant, so that the
\* fallback list is cut to 20
C1_Witness ==
  /\ Returned
  /\ Len(unique_articles) > 20
  /\ \A k \in 1..Len(unique_articles) : ~Mentions(unique_articles[k])
  /\ Len(final_articles) = 20

\* C2: no two distinct returned articles have headlines scoring above 85
C2_NoNearDuplicates ==
  Returned =>
    \A i, j \in 1..Len(final_articles) :
      i # j => token_set_ratio(final_articles[i].headline,
                               final_articles[j].headline) <= 85

\* C2 witness: near-duplicates were fetched in both windows and two or more
\* articles are returned
C2_Witness ==
  /\ Returned
  /\ Len(final_articles) >= 2
  /\ \E i, j \in 1..Len(all_articles) :
       /\ all_articles[i].url[2] = 7
       /\ all_articles[j].url[2] = 30
       /\ all_articles[i].headline.t = "str"
       /\ all_articles[j].headline.t = "str"
       /\ token_set_ratio(all_articles[j].headline, all_articles[i].headline) > 85
       /\ \E k \in 1..Len(final_articles) : final_articles[k] = all_articles[i]

\* C3: no returned article has a missing or empty headline
C3_NoHeadlessOutput ==
  Returned => \A k \in 1..Len(final_articles) : ~Headless(final_articles[k])

\* C3 witness: entries without a title and with an empty title were fetched
\* and the fallback branch returned something
C3_Witness ==
  /\ Returned
  /\ \E i \in 1..Len(all_articles) : all_articles[i].headline = None
  /\ \E i \in 1..Len(all_articles) : all_articles[i].headline = Str(<<>>)
  /\ final_articles # <<>>
  /\ \A k \in 1..Len(final_articles) : ~Mentions(final_articles[k])


\* the number of articles the 7-day window produced, over all providers
RECURSIVE Raw7(_)
Raw7(cs) ==
  IF cs = <<>> THEN 0
  ELSE (IF Head(cs).days_back = 7 THEN Head(cs).returned ELSE 0) + Raw7(Tail(cs))

Called30 == \E k \in 1..Len(calls) : calls[k].days_back = 30

\* C4: the 30-day window is queried exactly when the 7-day window produced
\* fewer than 10 articles, counted before deduplication
C4_WindowExpansion ==
  /\ Called30 => (Len(calls) > 3 /\ Raw7(calls) < 10)
  /\ LoopLeft => (Raw7(calls) < 10 => (Called30 /\ Len(calls) = 6))
  /\ LoopLeft => (Raw7(calls) >= 10 => Len(calls) = 3)

\* C4 witness: the 7-day window reached the threshold only because entries
\* without a headline are counted, and the 30-day window was not queried
C4_Witness ==
  /\ LoopLeft
  /\ Raw7(calls) >= 10
  /\ Len(SelectSeq(all_articles, LAMBDA a : ~Headless(a))) < 10
  /\ ~Called30

\* C5: when every provider call fails, both windows are tried and run returns
\* the empty list without raising
C5_TotalFailure ==
  (pc = "done" /\ all_failed) =>
     /\ Returned
     /\ final_articles = <<>>
     /\ Len(calls) = 6
     /\ \A k \in 4..6 : calls[k].days_back = 30

\* C5 witness: run has ended after six failed calls
C5_Witness == pc = "done" /\ all_failed /\ Len(calls) = 6

\* C6: run never raises, whatever shape the payloads have
C6_NeverRaises == outcome # "raised"

\* C7 as stated: a relevant headline anywhere among the returned articles
\* makes the output relevant-only; otherwise the output is the first 20
\* deduplicated articles
C7_AsStated ==
  Returned =>
    /\ (\E i \in 1..Len(all_articles) : Mentions(all_articles[i]))
         => \A k \in 1..Len(final_articles) : Mentions(final_articles[k])
    /\ ((\A i \in 1..Len(all_articles) : ~Mentions(all_articles[i]))
          /\ unique_articles # <<>>)
         => final_articles = SubSeq(unique_articles, 1, Min(20, Len(unique_articles)))

\* C7 amended: a relevant headline among the deduplicated articles makes the
\* output relevant-only; when no deduplicated article is relevant and there
\* is one, the output is the first 20 deduplicated articles
C7_Amended ==
  Returned =>
    /\ (\E i \in 1..Len(unique_articles) : Mentions(unique_articles[i]))
         => \A k \in 1..Len(final_articles) : Mentions(final_articles[k])
    /\ ((\A i \in 1..Len(unique_articles) : ~Mentions(unique_articles[i]))
          /\ unique_articles # <<>>)
         => final_articles = SubSeq(unique_articles, 1, Min(20, Len(unique_articles)))

\* C7 witness: the only relevant article fetched was dropped as a duplicate
\* and the fallback returned the deduplicated articles
C7_Witness ==
  /\ Returned
  /\ \E i \in 1..Len(all_articles) : Mentions(all_articles[i])
  /\ \A i \in 1..Len(unique_articles) : ~Mentions(unique_articles[i])
  /\ final_articles # <<>>
  /\ final_articles = unique_articles

\* R of C8: the sub-list of the articles whose headline mentions the subject
RelevantOf(seq) == SelectSeq(seq, Mentions)

FirstTwenty(seq) == SubSeq(seq, 1, IF Len(seq) < 20 THEN Len(seq) ELSE 20)

\* C8: run returns the first 20 of R when R is non-empty and the first 20 of
\* D otherwise, so the output is empty only when D is empty
C8_FilterOrFallback ==
  Returned =>
    /\ final_articles =
         IF RelevantOf(unique_articles) # <<>>
           THEN FirstTwenty(RelevantOf(unique_articles))
           ELSE FirstTwenty(unique_articles)
    /\ (final_articles = <<>> => unique_articles = <<>>)

\* C8 witness: the output holds an article that names only the ticker and one
\* that names only the short name, and R is a proper sub-list of D
C8_Witness ==
  /\ Returned
  /\ Len(final_articles) < Len(unique_articles)
  /\ \E a, b \in 1..Len(final_articles) :
       /\ contains(lower(stock_ticker.s), lower(final_articles[a].headline.s))
       /\ ~contains(lower(short_name.s), lower(final_articles[a].headline.s))
       /\ ~contains(lower(stock_ticker.s), lower(final_articles[b].headline.s))
       /\ contains(lower(short_name.s), lower(final_articles[b].headline.s))

Rank(source) == CHOOSE r \in 1..3 : Providers[r] = source

\* arrival order: window, then provider, then position in the payload
Before(a, b) ==
  \/ a.url[2] < b.url[2]
  \/ (a.url[2] = b.url[2] /\ Rank(a.source) < Rank(b.source))
  \/ (a.url[2] = b.url[2] /\ a.source = b.source /\ a.url[3] < b.url[3])

\* C9: the accumulated list is in arrival order and the output is a
\* subsequence of it
C9_ArrivalOrder ==
  /\ \A i, j \in 1..Len(all_articles) :
       i < j => Before(all_articles[i], all_articles[j])
  /\ Returned =>
       /\ \A i, j \in 1..Len(final_articles) :
            i < j => Before(final_articles[i], final_articles[j])
       /\ \A k \in 1..Len(final_articles) :
            \E i \in 1..Len(all_articles) : all_articles[i] = final_articles[k]

\* C9 witness: the output spans both windows and two providers of one
\* window, and some fetched articles were left out
C9_Witness ==
  /\ Returned
  /\ Len(final_articles) < Len(all_articles)
  /\ \E a, b, c \in 1..Len(final_articles) :
       /\ final_articles[a].url[2] = 7
       /\ final_articles[b].url[2] = 30
       /\ final_articles[c].url[2] = final_articles[a].url[2]
       /\ final_articles[c].source # final_articles[a].source

\* C10: no adapter call returns more than 20 articles
C10_AdapterCap == \A k \in 1..Len(calls) : calls[k].returned <= 20

\* the adapter calls of a run that tries both windows
Schedule ==
  [k \in 1..(Len(search_windows) * Len(Providers)) |->
     [provider |-> Providers[((k - 1) % Len(Providers)) + 1],
      days_back |-> search_windows[((k - 1) \div Len(Providers)) + 1]]]

\* the steps of the current window that are still ahead
StepsAhead ==
  CASE pc = "newsapi" -> 6
    [] pc = "gnews" -> 5
    [] pc = "alpha_vantage" -> 4
    [] pc = "extend" -> 3
    [] pc = "dedup" -> 2
    [] pc = "filter" -> 1
    [] pc = "done" -> 0

\* a bound on the steps a run can still take
Measure == (Len(search_windows) - w) * 7 + StepsAhead

\* C16: the calls made are the first calls of the schedule NewsAPI, GNews,
\* Alpha Vantage for 7 days and then for 30 days, each made once; a run that
\* left the loop made 3 or 6 of them and makes no further call; every step
\* brings the run closer to its end
C16_CallSchedule ==
  /\ [](/\ Len(calls) <= Len(Schedule)
        /\ \A k \in 1..Len(calls) :
             /\ calls[k].provider = Schedule[k].provider
             /\ calls[k].days_back = Schedule[k].days_back
        /\ LoopLeft => Len(calls) \in {3, 6}
        /\ Measure >= 0)
  /\ [][/\ Measure' < Measure
        /\ LoopLeft => calls' = calls]_vars

\* C16 witness: NewsAPI alone reached the threshold, GNews failed, and the
\* run ended after the three calls of the 7-day window
C16_Witness ==
  /\ pc = "done"
  /\ Len(calls) = 3
  /\ calls[1].returned >= 10
  /\ calls[2].returned = 0
  /\ calls[3].provider = "Alpha Vantage"

\* the number of articles of all_articles that came from one adapter call
FromCall(c) ==
  Len(SelectSeq(all_articles,
                LAMBDA a : a.source = c.provider /\ a.url[2] = c.days_back))

KeptAt ==
  { i \in 1..Len(dedup_call.articles) :
      \E k \in 1..Len(dedup_call.unique_articles) :
        dedup_call.unique_articles[k] = dedup_call.articles[i] }

Headline(i) == dedup_call.articles[i].headline

\* C17: the result is the argument restricted to the kept positions, in
\* order; a position is kept exactly when its headline is non-empty and
\* scores at most 85 against every kept position before it; a discarded
\* position with a non-empty headline scores above 85 against a kept
\* position before it
C17_KeepRule ==
  dedup_call.step >= 1 =>
    /\ dedup_call.unique_articles =
         SelectSeq(dedup_call.articles,
                   LAMBDA a : \E i \in KeptAt : dedup_call.articles[i] = a)
    /\ \A i \in 1..Len(dedup_call.articles) :
         i \in KeptAt <=>
           /\ ~Headless(dedup_call.articles[i])
           /\ \A j \in KeptAt : j < i => token_set_ratio(Headline(i), Headline(j)) <= 85
    /\ \A i \in 1..Len(dedup_call.articles) :
         (i \notin KeptAt /\ ~Headless(dedup_call.articles[i])) =>
           \E j \in KeptAt : j < i /\ token_set_ratio(Headline(i), Headline(j)) > 85

\* C17 witness: two kept headlines score exactly 85, and an article with a
\* non-empty headline was discarded
C17_Witness ==
  /\ dedup_call.step >= 1
  /\ \E i, j \in KeptAt : j < i /\ token_set_ratio(Headline(i), Headline(j)) = 85
  /\ \E i \in 1..Len(dedup_call.articles) :
       /\ i \notin KeptAt
       /\ ~Headless(dedup_call.articles[i])

\* the position of an article of the result in the argument
PositionOf(a) == CHOOSE i \in 1..Len(dedup_call.articles) : dedup_call.articles[i] = a

\* C19: the result is a subsequence of the argument, and a second call on
\* the result returns the result
C19_Idempotent ==
  /\ dedup_call.step >= 1 =>
       /\ \A k \in 1..Len(dedup_call.unique_articles) :
            \E i \in 1..Len(dedup_call.articles) :
              dedup_call.articles[i] = dedup_call.unique_articles[k]
       /\ \A k, l \in 1..Len(dedup_call.unique_articles) :
            k < l => PositionOf(dedup_call.unique_articles[k])
                       < PositionOf(dedup_call.unique_articles[l])
  /\ dedup_call.step = 2 => dedup_call.again = dedup_call.unique_articles

\* C19 witness: the second call has been made on a result from which the
\* first call dropped two duplicates of the first article that do not
\* resemble each other
C19_Witness ==
  /\ dedup_call.step = 2
  /\ Len(dedup_call.articles) = 3
  /\ KeptAt = {1}
  /\ token_set_ratio(Headline(2), Headline(1)) > 85
  /\ token_set_ratio(Headline(3), Headline(1)) > 85
  /\ ~Headless(dedup_call.articles[2])
  /\ ~Headless(dedup_call.articles[3])
  /\ token_set_ratio(Headline(3), Headline(2)) <= 85

\* C11: a call that repeats the triple of the call before it, which
\* returned, is a hit: it makes no provider call and returns the result of
\* that call
C11_RepeatIsServed ==
  last_call.repeat =>
    /\ last_call.hit
    /\ last_call.provider_calls = 0
    /\ last_call.outcome = "returned"
    /\ last_call.result = last_call.previous

\* C11 witness: the repeated call was served the empty list
C11_Witness ==
  /\ last_call.repeat
  /\ last_call.hit
  /\ last_call.provider_calls = 0
  /\ last_call.result = [articles |-> <<>>]

\* C12 as stated: a call with a triple for which run has returned before is
\* a hit without provider calls, whatever was called in between
C12_AsStated ==
  last_call.returned_before => (last_call.hit /\ last_call.provider_calls = 0)

\* C12 amended: a call with a triple for which run has returned before is a
\* hit without provider calls when fewer than 128 other triples were called
\* since the triple last returned
C12_Amended ==
  (last_call.returned_before /\ last_call.others_since < 128) =>
     (last_call.hit /\ last_call.provider_calls = 0)

\* C12 witness: a hit after 127 other triples
C12_Witness ==
  /\ last_call.returned_before
  /\ last_call.others_since = 127
  /\ last_call.hit
  /\ Len(cache) = 128

Did(what) == \E e \in invoked : e.what = what

\* C13: every result the cache holds is as run returned it, also after the
\* sentiment request and the summarizer have worked on it, so a hit returns
\* what the first call returned
C13_ResultNotMutated ==
  /\ \A i \in 1..Len(cache) : cache[i].result = snapshot[cache[i].key]
  /\ last_call.hit => last_call.result = snapshot[last_call.key]

\* C13 witness: a hit on a result with articles, which an earlier report
\* sent to the sentiment service and to the summarizer
C13_Witness ==
  /\ last_call.hit
  /\ report.stage = "news"
  /\ Len(last_call.result.articles) = 2
  /\ Did("SentimentAgent.run")
  /\ Did("SummarizerAgent.run")

\* C14: on an empty article list SentimentAgent.run returns Neutral with
\* score 0.0 without calling the model, and SummarizerAgent.run returns its
\* fixed summary without calling the inference endpoint
C14_ZeroArticles ==
  (report.news_data # -1 /\ NewsArticles = <<>>) =>
     /\ Did("SentimentAgent.run") =>
          /\ report.sentiment_result.sentiment_label = "Neutral"
          /\ report.sentiment_result.sentiment_score = 0
          /\ ~Did("sentiment_pipeline")
     /\ Did("SummarizerAgent.run") =>
          /\ report.summary_result =
               [summary |-> "No news content available to generate a summary."]
          /\ ~Did("API_URL")

\* C14 witness: both consumers have run on the empty list
C14_Witness ==
  /\ report.news_data # -1
  /\ NewsArticles = <<>>
  /\ Did("SentimentAgent.run")
  /\ Did("SummarizerAgent.run")

\* C18: the table the cache of ChartingAgent.run holds has the columns and
\* values it had when run first returned it, also after
\* InterpretationAgent.run has worked on it
C18_TableUnaltered ==
  \A i \in 1..Len(chart_cache) : chart_cache[i].result.price_history_df = chart.first

\* the weight the claim gives a metric, in tenths
ClaimedWeight(metric) ==
  CASE metric = "Debt-to-Equity" -> 15
    [] metric = "Profit Margin" -> 12
    [] metric = "Return on Equity" -> 10
    [] metric = "News Sentiment" -> 10
    [] metric = "P/E Ratio" -> 8
    [] metric = "Price-to-Sales Ratio" -> 8

RECURSIVE WeightedSum(_)
WeightedSum(checks) ==
  IF checks = <<>> THEN 0
  ELSE (CASE Head(checks).rating = "Positive" -> ClaimedWeight(Head(checks).metric)
          [] Head(checks).rating = "Negative" -> 0 - ClaimedWeight(Head(checks).metric)
          [] Head(checks).rating = "Neutral" -> 0)
       + WeightedSum(Tail(checks))

\* C20: the verdict has a scorecard of six checks, one per metric; the tilt
\* is Bullish exactly when the weighted sum of the ratings is 1.5 or more,
\* Bearish exactly when it is -1.5 or less, Neutral otherwise; a missing or
\* non-numeric metric is rated Neutral, and with every input missing the
\* tilt is Neutral with no positive and no negative check
C20_WeightedTilt ==
  verdict.stage = "done" =>
    LET result == verdict.verdict_result
        total == WeightedSum(result.scorecard)
        inputs == <<verdict.financial_data.pe_ratio, verdict.financial_data.price_to_sales,
                    verdict.financial_data.profit_margins,
                    verdict.financial_data.return_on_equity,
                    verdict.financial_data.debt_to_equity,
                    verdict.sentiment_data.sentiment_score>>
    IN /\ Len(result.scorecard) = 6
       /\ { result.scorecard[k].metric : k \in 1..6 } =
            {"Debt-to-Equity", "Profit Margin", "Return on Equity", "News Sentiment",
             "P/E Ratio", "Price-to-Sales Ratio"}
       /\ (result.tilt = "Bullish") <=> (total >= 15)
       /\ (result.tilt = "Bearish") <=> (total <= 0 - 15)
       /\ (result.tilt = "Neutral") <=> (total > 0 - 15 /\ total < 15)
       /\ \A k \in 1..6 :
            /\ result.scorecard[k].value = inputs[k]
            /\ inputs[k].t \in {"NoneType", "str"} => result.scorecard[k].rating = "Neutral"
       /\ (\A k \in 1..6 : inputs[k] = Missing) =>
            (result.tilt = "Neutral" /\ result.positive_checks = 0
               /\ result.negative_checks = 0)

\* C20 witness: the only rated check is a positive Debt-to-Equity, the sum
\* is exactly 1.5 and the tilt is Bullish; the P/E is a string
C20_Witness ==
  /\ verdict.stage = "done"
  /\ verdict.financial_data.pe_ratio = Text
  /\ verdict.verdict_result.positive_checks = 1
  /\ verdict.verdict_result.negative_checks = 0
  /\ verdict.verdict_result.scorecard[5].rating = "Positive"
  /\ verdict.verdict_result.tilt = "Bullish"

\* the script of the report has ended: by st.stop(), by an exception that
\* left it, or at its last line
ReportEnded == script.pc \in {"stopped", "crashed", "display"}

\* the rule engine ran on the fallback of the except branch
RulesOnFallback ==
  /\ verdict.stage = "done"
  /\ report.sentiment_result.sentiment_label = "Error"
  /\ verdict.sentiment_data.sentiment_score = Float(0)

\* C21: in one report generation, when the result of DataRetrieverAgent.run
\* has its error set then no later stage is invoked; otherwise news,
\* sentiment request, summary, chart, interpretation and rule engine are each
\* invoked exactly once in that order, and when the sentiment request failed
\* the rule engine has still run, on the fallback sentiment (label Error,
\* score 0.0).
C21_StagesInOrder ==
  ReportEnded =>
    IF Truthy(script.financial_data.error)
      THEN script.trace = <<"data">>
      ELSE /\ script.trace = Stages
           /\ script.request = "failed" => RulesOnFallback

\* what the script does do: the stages run in order, a truthy error stops it
\* after the first, and past the news step it runs to the rule engine
StagesInOrderUnlessRaised ==
  /\ script.trace = Take(Stages, Len(script.trace))
  /\ ReportEnded =>
       CASE Truthy(script.financial_data.error) -> script.trace = <<"data">>
         [] script.pc = "crashed" ->
              /\ script.trace = <<"data", "news">>
              /\ last_call.outcome = "raised"
         [] OTHER -> /\ script.trace = Stages
                     /\ script.request = "failed" => RulesOnFallback

====
